---- MODULE Spec2Model ----
(***************************************************************************)
(* A model of the VC-directory pipeline of src/first.py:                   *)
(*   fetch_web_page -> parse_html_to_text -> extract_vc_data ->            *)
(*   insert_vc_records -> query_all_vc_records, driven by main, over the   *)
(*   SQLite table vc_firms created by initialize_database.                 *)
(*                                                                         *)
(* Taken as given: the start-up check of OPENAI_API_KEY (lines 13-16) has  *)
(* passed, and requests.get and the ChatCompletion call return (a          *)
(* transport failure ends the run like any other exception).  Field values *)
(* of the reply's objects are strings, or a nested array sqlite3 cannot    *)
(* bind.                                                                   *)
(***************************************************************************)
EXTENDS Integers, Sequences, FiniteSets, TLC

\* ------------------------------------------------------------------ bounds
\* Longest JSON array (and longest top-level string / object) a reply carries.
MaxLen == 2
\* Most rows the table holds; an insert that would exceed it is not started.
MaxRows == 2
\* datetime.utcnow() reads a value in 0..MaxClock.
MaxClock == 1

\* ------------------------------------------------------------- JSON values
Keys == {"Name", "Location", "Website", "Focus"}

\* Marks a key the JSON object does not carry.
Absent == "<absent>"
\* A field value that is itself a JSON array/object: sqlite3 cannot bind it.
Nested == "<nested>"

NoFields == [k \in Keys |-> Absent]

\* The object carrying exactly the keys of S, each with its value.
Obj(S) ==
    [t |-> "obj",
     f |-> [k \in Keys |-> IF k \notin S THEN Absent
                           ELSE CASE k = "Name" -> "Acme Ventures"
                                  [] k = "Location" -> "SF"
                                  [] k = "Website" -> "acme.vc"
                                  [] OTHER -> "seed"]]

\* An object whose Focus is a JSON array.
NestedObj == [t |-> "obj", f |-> [Obj({"Name"}).f EXCEPT !["Focus"] = Nested]]

\* The key sets of the objects a reply's array carries: none, one, all but
\* Name, all four.
KeySets == { {}, {"Name"}, {"Location", "Website", "Focus"}, Keys }

Objects == { Obj(S) : S \in KeySets } \cup {NestedObj}

\* Python values that are not dicts: an int, a str (also a dict's key or a
\* character of a str when the top-level value is iterated).
NumElem == [t |-> "num", f |-> NoFields]
StrElem == [t |-> "str", f |-> NoFields]

Elements == Objects \cup {NumElem}

SeqsUpTo(S, n) == UNION { [1..m -> S] : m \in 0..n }

\* A decoded JSON value: its type and, for the iterable types, what iterating
\* it yields (an array's elements, an object's keys, a string's characters).
Values ==
    [t : {"arr"}, e : SeqsUpTo(Elements, MaxLen)]
    \cup [t : {"obj", "str"}, e : SeqsUpTo({StrElem}, MaxLen)]
    \cup [t : {"num", "null"}, e : {<< >>}]

NoValue == [t |-> "unset", e |-> << >>]

\* The completion service's reply text: a JSON document, bare or surrounded by
\* whitespace, or preceded by prose ("Sure! Here's the data:"), which
\* json.loads rejects.
Wraps == {"none", "whitespace", "preamble"}
Replies == [wrap : Wraps, body : Values]
NoReply == [wrap |-> "unset", body |-> NoValue]

json_loads(r) ==
    IF r.wrap \in {"none", "whitespace"}
    THEN [ok |-> TRUE, val |-> r.body]
    ELSE [ok |-> FALSE, val |-> NoValue]

\* ------------------------------------------------------------------ errors
NoError == [type |-> "none", status |-> 0, url |-> ""]
Raise(type) == [type |-> type, status |-> 0, url |-> ""]
\* Exception(f"Error fetching {url}: {response.status_code}")
FetchError(url, code) == [type |-> "Exception", status |-> code, url |-> url]

\* --------------------------------------------------------------- the fetch
Urls == {"https://a.example/vcs", "https://b.example/vcs"}
StatusCodes == {200, 204, 404, 500}

\* Variant: any status below 400 passes (response.ok).
status_ok_lenient(code) == code < 400

status_ok(code) == code = 200

\* ---------------------------------------------------------- the normalizer
P(txt) == [tag |-> "p", text |-> txt]
Script == [tag |-> "script", text |-> "js"]
Style == [tag |-> "style", text |-> "css"]
Pages == { << >>, <<P("Acme"), Script>>, <<Style, P("Acme"), P("SF")>> }
NoPage == <<[tag |-> "unset", text |-> ""]>>
NoText == <<"<unset>">>

RECURSIVE get_text(_)
get_text(nodes) ==
    IF nodes = << >> THEN << >>
    ELSE <<Head(nodes).text>> \o get_text(Tail(nodes))

RECURSIVE decompose(_)
decompose(nodes) ==
    IF nodes = << >> THEN << >>
    ELSE IF Head(nodes).tag \in {"script", "style"}
         THEN decompose(Tail(nodes))
         ELSE <<Head(nodes)>> \o decompose(Tail(nodes))

\* The text nodes left after the script and style elements are removed, in
\* document order (the "\n"-joined string, kept as its sequence of pieces).
parse_html_to_text(html_content) == get_text(decompose(html_content))

\* --------------------------------------------------------------- the store
NoTable == << >>
VcFirms == <<"id", "name", "location", "website", "focus", "last_updated">>

Max(a, b) == IF a >= b THEN a ELSE b
MaxRowId(rs) == IF rs = {} THEN 0 ELSE CHOOSE m \in {r.id : r \in rs} : \A r \in rs : r.id <= m

\* Variant: CREATE TABLE without IF NOT EXISTS fails on an existing table.
initialize_create_only(st) ==
    IF st.schema = NoTable
    THEN [schema |-> VcFirms, rows |-> {}, seq |-> 0, err |-> "none"]
    ELSE [st EXCEPT !.err = "OperationalError"]

\* Variant: DROP TABLE IF EXISTS before the CREATE TABLE.
initialize_drop_create(st) ==
    [schema |-> VcFirms, rows |-> {}, seq |-> 0, err |-> "none"]

\* Variant: the statement creates a table of another name.
initialize_other_table(st) == [st EXCEPT !.err = "none"]

\* CREATE TABLE IF NOT EXISTS vc_firms (...); commit.
initialize_database(st) ==
    [schema |-> IF st.schema = NoTable THEN VcFirms ELSE st.schema,
     rows |-> st.rows, seq |-> st.seq, err |-> "none"]

\* Variant: record.get(key), with no default.
record_get_no_default(record, key) == record.f[key]

\* record.get(key, "")
record_get(record, key) ==
    IF record.f[key] = Absent THEN "" ELSE record.f[key]

\* The tuple bound to the INSERT's five placeholders, with the rowid that
\* INTEGER PRIMARY KEY AUTOINCREMENT assigns.
Row(id, record, now) ==
    [id |-> id,
     name |-> record_get(record, "Name"),
     location |-> record_get(record, "Location"),
     website |-> record_get(record, "Website"),
     focus |-> record_get(record, "Focus"),
     last_updated |-> now]

\* One pass of "for record in vc_records: cursor.execute(INSERT ...)" inside
\* the connection's open transaction txn = [schema, rows, seq, err].
RECURSIVE execute_all(_, _, _, _)
execute_all(items, i, now, txn) ==
    IF i > Len(items) THEN txn
    ELSE LET record == items[i]
             id == Max(txn.seq, MaxRowId(txn.rows)) + 1
         IN IF record.t # "obj"
            THEN [txn EXCEPT !.err = "AttributeError"]
            ELSE IF txn.schema = NoTable
            THEN [txn EXCEPT !.err = "OperationalError"]
            ELSE IF \E k \in Keys : record_get(record, k) = Nested
            THEN [txn EXCEPT !.err = "InterfaceError"]
            ELSE execute_all(items, i + 1, now,
                             [txn EXCEPT !.rows = @ \cup {Row(id, record, now)},
                                         !.seq = id])

\* Variant: INSERT OR REPLACE keyed on (name, website).
commit_upsert(st, txn) ==
    LET new == txn.rows \ st.rows
    IN [schema |-> st.schema,
        rows |-> { r \in st.rows : \A n \in new : <<n.name, n.website>> # <<r.name, r.website>> }
                 \cup new,
        seq |-> txn.seq, err |-> "none"]

\* conn.commit(): the transaction's rows and sqlite_sequence become durable.
commit(st, txn) == [schema |-> st.schema, rows |-> txn.rows, seq |-> txn.seq, err |-> "none"]

\* Variant: a commit after every execute, so the rows before the failure stay.
rollback_keeps_prefix(st, txn) ==
    [schema |-> st.schema, rows |-> txn.rows, seq |-> txn.seq, err |-> txn.err]

\* The exception leaves insert_vc_records before conn.commit(): the
\* connection is dropped and SQLite rolls the open transaction back.
rollback(st, txn) == [schema |-> st.schema, rows |-> st.rows, seq |-> st.seq, err |-> txn.err]

Iterable(v) == v.t \in {"arr", "obj", "str"}

\* insert_vc_records(vc_records) on the store st = [schema, rows, seq, err].
insert_vc_records(st, vc_records, now) ==
    IF ~Iterable(vc_records)
    THEN [st EXCEPT !.err = "TypeError"]
    ELSE LET txn == execute_all(vc_records.e, 1, now, [st EXCEPT !.err = "none"])
         IN IF txn.err = "none" THEN commit(st, txn) ELSE rollback(st, txn)

\* print(f"Inserted {len(vc_records)} records into the database.")
None == [t |-> "None", v |-> 0]
IntVal(n) == [t |-> "int", v |-> n]
Unset == [t |-> "unset", v |-> 0]
inserted_message(vc_records) == IntVal(Len(vc_records.e))

\* What insert_vc_records hands back to its caller: it has no return statement.
insert_return(vc_records) == None

\* Variant: ORDER BY id DESC.
RECURSIVE fetchall_desc(_)
fetchall_desc(rs) ==
    IF rs = {} THEN << >>
    ELSE LET last == CHOOSE r \in rs : \A q \in rs : r.id >= q.id
         IN <<last>> \o fetchall_desc(rs \ {last})

\* SELECT ... FROM vc_firms: a scan of the rowid b-tree, ascending rowid.
RECURSIVE fetchall(_)
fetchall(rs) ==
    IF rs = {} THEN << >>
    ELSE LET first == CHOOSE r \in rs : \A q \in rs : r.id <= q.id
         IN <<first>> \o fetchall(rs \ {first})

query_all_vc_records(st) ==
    IF st.schema = NoTable
    THEN [err |-> "OperationalError", out |-> << >>]
    ELSE [err |-> "none", out |-> fetchall(st.rows)]

\* ------------------------------------------------------------------- state
\* A local of main is held from its assignment to its last read.
VARIABLES
    pc,           \* the process's position: idle (nothing run yet), the stage
                  \* main runs next, or done / aborted / returned
    op,           \* the operation that ran last
    trace,        \* the stages the current run of main has run, in order
    err,          \* the exception that ended the last operation, or NoError
    source_url,   \* main's source_url
    status,       \* response.status_code of the run's fetch (0: none yet)
    html,         \* main's html
    text,         \* main's text
    reply,        \* extract_vc_data's reply
    vc_data,      \* main's vc_data / the argument of the last insert
    schema,       \* the store: vc_firms' columns, or NoTable
    rows,         \* the store: the committed rows of vc_firms
    seq,          \* the store: sqlite_sequence's value for vc_firms
    rows0,        \* the committed rows when the process started
    printed,      \* the count in insert's "Inserted n records" line
    ret,          \* what the last insert returned
    queryResult   \* the rows the last query_all fetched

vars == <<pc, op, trace, err, source_url, status, html, text, reply, vc_data,
          schema, rows, seq, rows0, printed, ret, queryResult>>

locals == <<source_url, status, html, text, reply, vc_data>>
results == <<printed, ret, queryResult>>

store == [schema |-> schema, rows |-> rows, seq |-> seq, err |-> "none"]

SetStore(st) == schema' = st.schema /\ rows' = st.rows /\ seq' = st.seq

Errored(e) == IF e = "none" THEN NoError ELSE Raise(e)

Fresh ==
    /\ pc = "idle" /\ op = "none" /\ trace = << >> /\ err = NoError
    /\ source_url = "" /\ status = 0 /\ html = NoPage /\ text = NoText
    /\ reply = NoReply /\ vc_data = NoValue
    /\ printed = Unset /\ ret = Unset /\ queryResult = << >>

Init ==
    /\ Fresh
    /\ schema = NoTable /\ rows = {} /\ seq = 0 /\ rows0 = {}

\* ---------------------------------------------------------- main, by stage
\* main() starts: initialize_database().
MainInitialize ==
    /\ pc = "idle"
    /\ LET st == initialize_database(store)
       IN /\ SetStore(st)
          /\ err' = Errored(st.err)
          /\ pc' = IF st.err = "none" THEN "fetch" ELSE "aborted"
    /\ op' = "initialize" /\ trace' = <<"initialize">>
    /\ UNCHANGED <<locals, results, rows0>>

\* Exception(f"Error fetching {url}: {response.status_code}") unless 200.
fetch_web_page(url, code, body) ==
    IF status_ok(code)
    THEN [err |-> NoError, text |-> body]
    ELSE [err |-> FetchError(url, code), text |-> NoPage]

\* source_url = input(...).strip(); html = fetch_web_page(source_url)
MainFetch ==
    /\ pc = "fetch"
    /\ \E url \in Urls, code \in StatusCodes, body \in Pages :
          LET res == fetch_web_page(url, code, body)
          IN /\ source_url' = url
             /\ status' = code
             /\ html' = res.text
             /\ err' = res.err
             /\ pc' = IF res.err = NoError THEN "normalize" ELSE "aborted"
    /\ op' = "fetch" /\ trace' = Append(trace, "fetch")
    /\ UNCHANGED <<text, reply, vc_data, schema, rows, seq, rows0, results>>

\* text = parse_html_to_text(html)
MainNormalize ==
    /\ pc = "normalize"
    /\ text' = parse_html_to_text(html)
    /\ source_url' = "" /\ status' = 0 /\ html' = NoPage
    /\ pc' = "extract" /\ op' = "normalize" /\ trace' = Append(trace, "normalize")
    /\ UNCHANGED <<err, reply, vc_data, schema, rows, seq, rows0, results>>

\* Variant: the except clause returns an empty list instead of re-raising.
extract_swallows(r) ==
    LET parsed == json_loads(r)
    IN [err |-> "none",
        vc_list |-> IF parsed.ok THEN parsed.val ELSE [t |-> "arr", e |-> << >>]]

\* extract_vc_data(text): the reply's json.loads result, or its exception.
extract_vc_data(r) ==
    LET parsed == json_loads(r)
    IN IF parsed.ok
       THEN [err |-> "none", vc_list |-> parsed.val]
       ELSE [err |-> "JSONDecodeError", vc_list |-> NoValue]

\* vc_data = extract_vc_data(text); print(json.dumps(vc_data, indent=2))
MainExtract ==
    /\ pc = "extract"
    /\ \E r \in Replies :
          /\ Cardinality(rows) + Len(r.body.e) <= MaxRows
          /\ reply' = r
          /\ LET res == extract_vc_data(r)
             IN /\ vc_data' = res.vc_list
                /\ err' = Errored(res.err)
                /\ pc' = IF res.err = "none" THEN "insert" ELSE "aborted"
    /\ text' = NoText
    /\ op' = "extract" /\ trace' = Append(trace, "extract")
    /\ UNCHANGED <<source_url, status, html, schema, rows, seq, rows0, results>>

\* insert_vc_records(vc_data)
MainInsert ==
    /\ pc = "insert"
    /\ \E now \in 0..MaxClock :
          LET st == insert_vc_records(store, vc_data, now)
          IN /\ SetStore(st)
             /\ err' = Errored(st.err)
             /\ pc' = IF st.err = "none" THEN "query" ELSE "aborted"
             /\ printed' = IF st.err = "none" THEN inserted_message(vc_data) ELSE Unset
             /\ ret' = IF st.err = "none" THEN insert_return(vc_data) ELSE Unset
    /\ reply' = NoReply
    /\ op' = "insert" /\ trace' = Append(trace, "insert")
    /\ UNCHANGED <<source_url, status, html, text, vc_data, rows0, queryResult>>

\* query_all_vc_records()
MainQuery ==
    /\ pc = "query"
    /\ LET q == query_all_vc_records(store)
       IN /\ queryResult' = q.out
          /\ err' = Errored(q.err)
          /\ pc' = IF q.err = "none" THEN "done" ELSE "aborted"
    /\ op' = "query" /\ trace' = Append(trace, "query")
    /\ UNCHANGED <<locals, schema, rows, seq, rows0, printed, ret>>

\* ------------------------------- the store's operations, called on their own
CallInitialize ==
    /\ pc = "idle"
    /\ LET st == initialize_database(store)
       IN /\ SetStore(st)
          /\ err' = Errored(st.err)
    /\ pc' = "returned" /\ op' = "initialize"
    /\ UNCHANGED <<trace, locals, results, rows0>>

CallInsert ==
    /\ pc = "idle"
    /\ \E v \in Values, now \in 0..MaxClock :
          /\ Cardinality(rows) + Len(v.e) <= MaxRows
          /\ vc_data' = v
          /\ LET st == insert_vc_records(store, v, now)
             IN /\ SetStore(st)
                /\ err' = Errored(st.err)
                /\ printed' = IF st.err = "none" THEN inserted_message(v) ELSE Unset
                /\ ret' = IF st.err = "none" THEN insert_return(v) ELSE Unset
    /\ pc' = "returned" /\ op' = "insert"
    /\ UNCHANGED <<trace, source_url, status, html, text, reply, rows0, queryResult>>

CallQueryAll ==
    /\ pc = "idle"
    /\ LET q == query_all_vc_records(store)
       IN /\ queryResult' = q.out
          /\ err' = Errored(q.err)
    /\ pc' = "returned" /\ op' = "query"
    /\ UNCHANGED <<trace, locals, schema, rows, seq, rows0, printed, ret>>

\* The process ends (main returned, or the exception left it); the next one
\* starts with nothing but the database file.
Exit ==
    /\ pc \in {"done", "aborted", "returned"}
    /\ pc' = "idle" /\ op' = "none" /\ trace' = << >> /\ err' = NoError
    /\ source_url' = "" /\ status' = 0 /\ html' = NoPage /\ text' = NoText
    /\ reply' = NoReply /\ vc_data' = NoValue
    /\ printed' = Unset /\ ret' = Unset /\ queryResult' = << >>
    /\ rows0' = rows
    /\ UNCHANGED <<schema, rows, seq>>

Next ==
    \/ MainInitialize
    \/ MainFetch
    \/ MainNormalize
    \/ MainExtract
    \/ MainInsert
    \/ MainQuery
    \/ CallInitialize
    \/ CallInsert
    \/ CallQueryAll
    \/ Exit

Spec == Init /\ [][Next]_vars

\* ================================================================== claims
ValidJson(r) == r.wrap \in {"none", "whitespace"}
ArrayOfObjects(v) == v.t = "arr" /\ \A i \in 1..Len(v.e) : v.e[i].t = "obj"
\* The field an ExtractedRecord has for key k: the reply's value, or "".
Field(record, k) == IF record.f[k] = Absent THEN "" ELSE record.f[k]
Added == rows \ rows0
\* The j-th added row in ascending id.
AddedRow(j) == CHOOSE r \in Added : Cardinality({q \in Added : q.id < r.id}) = j - 1
FieldsOf(record, r) ==
    /\ r.name = Field(record, "Name")
    /\ r.location = Field(record, "Location")
    /\ r.website = Field(record, "Website")
    /\ r.focus = Field(record, "Focus")
StageOrder == <<"initialize", "fetch", "normalize", "extract", "insert", "query">>
IsPrefix(a, b) == Len(a) <= Len(b) /\ \A i \in 1..Len(a) : a[i] = b[i]
Plain(record) == record.t = "obj" /\ \A k \in Keys : record.f[k] # Nested

\* C1: whenever extract has run on a reply that is not valid JSON, or is valid
\* JSON but not an array of objects, it has failed with a decode error and
\* handed no value to its caller.
C1_ExtractRejectsNonArrays ==
    (op = "extract" /\ ~(ValidJson(reply) /\ ArrayOfObjects(reply.body)))
        => (pc = "aborted" /\ err.type = "JSONDecodeError" /\ vc_data = NoValue)

C3_InsertThenQueryAll ==
    pc = "done" =>
        LET n == Len(vc_data.e)
            m == Len(queryResult)
        IN /\ m = Cardinality(rows0) + n
           /\ \A i \in 1..(m - n) : queryResult[i] \in rows0
           /\ \A i \in 1..m : queryResult[i].id >= 1
           /\ \A i \in 1..(m - 1) : queryResult[i].id < queryResult[i + 1].id
           /\ \A j \in 1..n :
                 /\ FieldsOf(vc_data.e[j], queryResult[m - n + j])
                 /\ queryResult[m - n + j].last_updated
                       = queryResult[m].last_updated

C3_Witness ==
    /\ pc = "done" /\ Len(vc_data.e) = 2
    /\ vc_data.e[1] # vc_data.e[2]
    /\ Len(queryResult) = 2

\* C4: after an insert that failed, the committed rows are those from before
\* the call; after any insert the rows added are none or the whole batch.
C4_InsertAllOrNothing ==
    op = "insert" =>
        /\ rows0 \subseteq rows
        /\ err # NoError => rows = rows0
        /\ Cardinality(Added) \in {0, Len(vc_data.e)}

C4_Witness ==
    /\ op = "insert" /\ err.type \in {"AttributeError", "InterfaceError"}
    /\ schema # NoTable
    /\ Len(vc_data.e) = 2 /\ Plain(vc_data.e[1])

\* C5: a fetch that met a status other than 200 has ended the run with an
\* error carrying that status and the URL, after initialize and fetch only,
\* and the stored rows are those from before the run; a fetch that met 200
\* has not.
C5_FetchFailureAborts ==
    op = "fetch" =>
        IF status = 200
        THEN pc = "normalize" /\ err = NoError
        ELSE /\ pc = "aborted"
             /\ err.type = "Exception"
             /\ err.status = status /\ err.url = source_url
             /\ source_url \in Urls
             /\ trace = <<"initialize", "fetch">>
             /\ rows = rows0

C5_Witness ==
    /\ op = "fetch" /\ status = 404 /\ pc = "aborted" /\ rows # {}

\* C6: the stages a run has run are a prefix of initialize, fetch, normalize,
\* extract, insert, query; a stage that raised has ended the run; an extract
\* whose reply was not valid JSON has ended it with a decode error and no
\* insert; and a run's stages only ever grow by the next one of a run that
\* has not ended.
C6_StagesInv ==
    /\ IsPrefix(trace, StageOrder)
    /\ (trace # << >> /\ err # NoError) => pc = "aborted"
    /\ (op = "extract" /\ ~ValidJson(reply))
          => /\ pc = "aborted" /\ err.type = "JSONDecodeError"
             /\ trace = SubSeq(StageOrder, 1, 4)
             /\ rows = rows0

C6_StagesStep ==
    trace' # trace =>
        \/ trace' = << >>
        \/ trace = << >> /\ trace' = <<"initialize">>
        \/ /\ pc \notin {"aborted", "done"}
           /\ Len(trace') = Len(trace) + 1
           /\ SubSeq(trace', 1, Len(trace)) = trace

C6_StageOrder == [](C6_StagesInv) /\ [][C6_StagesStep]_vars

C6_Witness ==
    /\ op = "extract" /\ reply.wrap = "preamble" /\ ArrayOfObjects(reply.body)
    /\ Len(reply.body.e) = 1 /\ pc = "aborted"

\* C7: an initialize never fails; from the uninitialized store it leaves the
\* schema present and the table empty, and from the initialized store it
\* leaves the schema, the rows and the id sequence as they were.
C7_InitializeStep ==
    (pc = "idle" /\ op' = "initialize") =>
        /\ err' = NoError
        /\ schema' = VcFirms
        /\ schema = NoTable => rows' = {}
        /\ schema # NoTable => (schema' = schema /\ rows' = rows /\ seq' = seq)

C7_InitializeIdempotent == [][C7_InitializeStep]_vars

C7_Witness == op = "initialize" /\ rows # {} /\ pc = "returned"

\* C8: ids are unique and at least 1; every step keeps every committed row as
\* it is, gives each new row an id above every id assigned before, and a
\* successful insert adds one row per record even when equal records are
\* already stored.
C8_IdsInv ==
    /\ \A r, q \in rows : r.id = q.id => r = q
    /\ \A r \in rows : r.id >= 1 /\ r.id <= seq

C8_AppendStep ==
    /\ rows \subseteq rows'
    /\ seq <= seq'
    /\ \A r \in rows' \ rows : r.id > seq
    /\ (op' = "insert" /\ err' = NoError)
          => Cardinality(rows') = Cardinality(rows) + Len(vc_data'.e)

C8_AppendOnly == [](C8_IdsInv) /\ [][C8_AppendStep]_vars

C8_Witness ==
    \E r, q \in rows :
        /\ r.id # q.id /\ r.last_updated # q.last_updated
        /\ r.name = q.name /\ r.location = q.location
        /\ r.website = q.website /\ r.focus = q.focus

\* C9 as stated: a successful insert has added one row per record and has
\* returned the count of rows written.
C9_InsertReturnsCount ==
    (op = "insert" /\ err = NoError)
        => /\ Cardinality(rows) = Cardinality(rows0) + Len(vc_data.e)
           /\ ret = IntVal(Len(vc_data.e))

\* C9 amended: a successful insert has added one row per record (none for an
\* empty batch), has printed that count in its "Inserted n records" line and
\* has returned nothing (None) to its caller.
C9_InsertPrintsCount ==
    (op = "insert" /\ err = NoError)
        => /\ Cardinality(rows) = Cardinality(rows0) + Len(vc_data.e)
           /\ printed = IntVal(Cardinality(Added))
           /\ ret = None

C9_Witness ==
    /\ op = "insert" /\ err = NoError /\ Len(vc_data.e) = 2
    /\ Cardinality(Added) = 2

\* C10: a run's first stage is initialize; from then on the schema is
\* present, so insert and query_all run on the initialized store and never
\* meet a missing table; a run that aborted in fetch or extract has left the
\* schema present and the rows as they were.
C10_MainRunsInitialized ==
    /\ trace # << >> => (trace[1] = "initialize" /\ schema = VcFirms)
    /\ pc \in {"fetch", "normalize", "extract", "insert", "query", "done"}
          => schema = VcFirms
    /\ (trace # << >> /\ op \in {"insert", "query"}) => err.type # "OperationalError"
    /\ (pc = "aborted" /\ op \in {"fetch", "extract"})
          => (schema = VcFirms /\ rows = rows0)

C10_Witness ==
    /\ pc = "aborted" /\ op = "extract" /\ rows0 = {} /\ schema = VcFirms

====
